---- MODULE Spec2Model ----
(***************************************************************************)
(* Model of src/tuio2.py: class TuioToPdConverter, the slot allocation     *)
(* engine that maps TUIO session ids onto a fixed table of points and      *)
(* republishes the table to PureData at a throttled rate.                  *)
(*                                                                         *)
(* Numbers: OSC arguments are modelled as integers (int() and float() of   *)
(* the source keep the value, and -1.0 == -1 in Python).  Time is in       *)
(* milliseconds (the source's send_interval 0.01 s is 10).  Slot indices   *)
(* are 0-based as in the source.                                           *)
(***************************************************************************)
EXTENDS Integers, Sequences, FiniteSets, TLC

VARIABLES
    points,          \* self.points: slot index -> (x, y, vx, vy, accel)
    id_to_point,     \* self.id_to_point: dict session id -> slot index
    active_ids,      \* self.active_ids: set of session ids
    last_send_time,  \* self.last_send_time
    pd_sent,         \* the /point messages the last handler call sent
    path,            \* the branch the last handler call took
    overflowed,      \* history: assign_new_id has run with no free point
    free_x_written,  \* history: a set message carried x = -1
    fseq_log         \* history: the last fseq calls, <<time, published>>

vars == <<points, id_to_point, active_ids, last_send_time, pd_sent, path,
          overflowed, free_x_written, fseq_log>>

(***************************************************************************)
(* Bounds of the model and constants of the program.                       *)
(***************************************************************************)
\* self.num_points is 20 in the source (line 46); the model scales it down.
num_points == 3
\* session ids are 1..MaxId; MaxId > num_points so that the table can overflow
MaxId == 4
\* the latest clock reading, in ms, of the fine-grained gate specification
MaxTime == 21
\* self.send_interval = 0.01 s
send_interval == 10

Slots == 0 .. (num_points - 1)
Ids == 1 .. MaxId

\* the record of an unoccupied point
Sentinel == <<-1, -1, 0, 0, 0>>
\* FindFree's result when the loop finds no free point
NoSlot == -1

\* (x, y, x_vel, y_vel, accel) payloads of the set messages the model sends
Recs == { <<1, 1, 0, 0, 0>>, <<2, 2, 1, 1, 1>>, <<-1, 2, 1, 1, 1>> }

(***************************************************************************)
(* Dictionary helpers (Python dict assignment and del).                    *)
(***************************************************************************)
DictPut(d, k, v) == [x \in (DOMAIN d) \cup {k} |-> IF x = k THEN v ELSE d[x]]

DictDel(d, k) == [x \in (DOMAIN d) \ {k} |-> d[x]]

EmptyDict == [x \in {} |-> 0]

(***************************************************************************)
(* The engine state as a value, and the methods as operators on it.        *)
(***************************************************************************)
\* (s is a record with the fields of Engine below; the methods change only
\* the fields they assign)
Engine ==
    [points |-> points, id_to_point |-> id_to_point, active_ids |-> active_ids,
     last_send_time |-> last_send_time, pd_sent |-> pd_sent, path |-> path]

\* assign_new_id's loop: for i in range(num_points): if points[i][0] == -1
RECURSIVE FindFree(_, _)
FindFree(pts, i) ==
    IF i >= num_points THEN NoSlot
    ELSE IF pts[i][1] = -1 THEN i
    ELSE FindFree(pts, i + 1)

\* a variant that repairs the overflow: the ids bound to point 0 lose their
\* binding when the new id takes it
assign_new_id_Evicts(s, session_id, rec) ==
    LET i == FindFree(s.points, 0)
        kept == { k \in DOMAIN s.id_to_point : s.id_to_point[k] # 0 }
    IN
    IF i # NoSlot
    THEN [s EXCEPT !.id_to_point = DictPut(s.id_to_point, session_id, i),
                   !.points[i] = rec,
                   !.active_ids = s.active_ids \cup {session_id}]
    ELSE [s EXCEPT !.id_to_point =
                       DictPut([k \in kept |-> s.id_to_point[k]], session_id, 0),
                   !.points[0] = rec,
                   !.active_ids = s.active_ids \cup {session_id}]

\* a variant that leaves active_ids to the alive messages alone
assign_new_id_NoAdd(s, session_id, rec) ==
    LET i == FindFree(s.points, 0) IN
    IF i # NoSlot
    THEN [s EXCEPT !.id_to_point = DictPut(s.id_to_point, session_id, i),
                   !.points[i] = rec]
    ELSE [s EXCEPT !.id_to_point = DictPut(s.id_to_point, session_id, 0),
                   !.points[0] = rec]

assign_new_id(s, session_id, rec) ==
    LET i == FindFree(s.points, 0) IN
    IF i # NoSlot
    THEN [s EXCEPT !.id_to_point = DictPut(s.id_to_point, session_id, i),
                   !.points[i] = rec,
                   !.active_ids = s.active_ids \cup {session_id}]
    ELSE [s EXCEPT !.id_to_point = DictPut(s.id_to_point, session_id, 0),
                   !.points[0] = rec,
                   !.active_ids = s.active_ids \cup {session_id}]

\* a variant without the lookup of the existing binding
process_set_AlwaysAssigns(s, session_id, rec) ==
    assign_new_id(s, session_id, rec)

process_set(s, session_id, rec) ==
    IF session_id \in DOMAIN s.id_to_point
    THEN [s EXCEPT !.points[s.id_to_point[session_id]] = rec]
    ELSE assign_new_id(s, session_id, rec)

\* a variant that deletes the binding and forgets to reset the point
ReleaseId_KeepsRecord(s, removed_id) ==
    IF removed_id \in DOMAIN s.id_to_point
    THEN [s EXCEPT !.id_to_point = DictDel(s.id_to_point, removed_id)]
    ELSE s

\* a variant that resets the point and forgets to delete the binding
ReleaseId_KeepsBinding(s, removed_id) ==
    IF removed_id \in DOMAIN s.id_to_point
    THEN [s EXCEPT !.points[s.id_to_point[removed_id]] = Sentinel]
    ELSE s

\* process_alive's loop body for one removed id
ReleaseId(s, removed_id) ==
    IF removed_id \in DOMAIN s.id_to_point
    THEN [s EXCEPT !.points[s.id_to_point[removed_id]] = Sentinel,
                   !.id_to_point = DictDel(s.id_to_point, removed_id)]
    ELSE s

\* a variant whose loop stops after the first removed id
ReleaseAll_OnlyFirst(s, removed_ids) ==
    IF removed_ids = {} THEN s
    ELSE ReleaseId(s, CHOOSE x \in removed_ids : TRUE)

\* for removed_id in removed_ids: ... (a set is iterated in some order)
RECURSIVE ReleaseAll(_, _)
ReleaseAll(s, removed_ids) ==
    IF removed_ids = {} THEN s
    ELSE LET r == CHOOSE x \in removed_ids : TRUE
         IN  ReleaseAll(ReleaseId(s, r), removed_ids \ {r})

\* a variant that gives a point to an announced id that has none
process_alive_Allocates(s, new_active_ids) ==
    LET t == [ReleaseAll(s, s.active_ids \ new_active_ids)
                 EXCEPT !.active_ids = new_active_ids]
        fresh == new_active_ids \ DOMAIN t.id_to_point
    IN  IF fresh = {} THEN t
        ELSE assign_new_id(t, CHOOSE k \in fresh : TRUE, <<0, 0, 0, 0, 0>>)

process_alive(s, new_active_ids) ==
    [ReleaseAll(s, s.active_ids \ new_active_ids) EXCEPT !.active_ids = new_active_ids]

\* send_to_puredata's loop: one message [i, x, y, vx, vy, accel] per point
RECURSIVE SendFrom(_, _)
SendFrom(pts, i) ==
    IF i >= num_points THEN <<>>
    ELSE <<(<<i>> \o pts[i])>> \o SendFrom(pts, i + 1)

\* a variant whose loop starts at 1
send_to_puredata_FromOne(pts) == SendFrom(pts, 1)

\* a variant that sends the table as __init__ built it
send_to_puredata_Stale(pts) == SendFrom([i \in Slots |-> Sentinel], 0)

send_to_puredata(pts) == SendFrom(pts, 0)

\* a variant with a strict comparison
GateOpen_Strict(now, last) == now - last > send_interval

\* the fseq branch's condition
GateOpen(now, last) == now - last >= send_interval

\* a variant that records the time of every fseq, published or not
handle_fseq_StampsAlways(s, quiet, now) ==
    IF GateOpen(now, s.last_send_time)
    THEN [quiet EXCEPT !.pd_sent = SendFrom(s.points, 0),
                       !.last_send_time = now,
                       !.path = "publish"]
    ELSE [quiet EXCEPT !.last_send_time = now, !.path = "drop"]

\* set([int(args[i]) for i in range(1, len(args))])
AliveSet(args) == { args[i] : i \in 2 .. Len(args) }

\* which branch process_set takes in state s
SetPath(s, session_id) ==
    IF session_id \in DOMAIN s.id_to_point THEN "update"
    ELSE IF FindFree(s.points, 0) # NoSlot THEN "free"
    ELSE "overflow"

(***************************************************************************)
(* handle_tuio_message(address, *args) as a function of the state s, with  *)
(* `now` the value time.time() returns if the fseq branch reads it.        *)
(* pd_sent and path describe this call: what it sent and where it went.    *)
(***************************************************************************)
\* a variant that clears the table once it is sent
handle_fseq_ClearsTable(s, quiet, now) ==
    IF GateOpen(now, s.last_send_time)
    THEN [quiet EXCEPT !.pd_sent = SendFrom(s.points, 0),
                       !.last_send_time = now,
                       !.path = "publish",
                       !.points = [i \in Slots |-> Sentinel]]
    ELSE [quiet EXCEPT !.path = "drop"]

\* the fseq branch; quiet is s with this call's pd_sent and path cleared
handle_fseq(s, quiet, now) ==
    IF GateOpen(now, s.last_send_time)
    THEN [quiet EXCEPT !.pd_sent = send_to_puredata(s.points),
                       !.last_send_time = now,
                       !.path = "publish"]
    ELSE [quiet EXCEPT !.path = "drop"]

\* a variant that fills the missing fields of a short set message with 0
PadSet(args) == SubSeq(args \o <<0, 0, 0, 0, 0>>, 1, 7)

handle_tuio_message_PadsShort(s, args, now) ==
    LET quiet == [s EXCEPT !.pd_sent = <<>>, !.path = "ignored"] IN
    IF Len(args) = 0 THEN quiet
    ELSE IF args[1] = "set" THEN
        IF Len(args) < 2 THEN quiet
        ELSE LET full == PadSet(args)
                 session_id == full[2]
                 rec == <<full[3], full[4], full[5], full[6], full[7]>>
             IN  [process_set(quiet, session_id, rec)
                     EXCEPT !.path = SetPath(s, session_id)]
    ELSE IF args[1] = "alive" THEN
        [process_alive(quiet, AliveSet(args)) EXCEPT !.path = "alive"]
    ELSE IF args[1] = "fseq" THEN handle_fseq(s, quiet, now)
    ELSE quiet

handle_tuio_message(s, args, now) ==
    LET quiet == [s EXCEPT !.pd_sent = <<>>, !.path = "ignored"] IN
    IF Len(args) = 0 THEN quiet
    ELSE IF args[1] = "set" THEN
        IF Len(args) < 7 THEN quiet
        ELSE LET session_id == args[2]
                 rec == <<args[3], args[4], args[5], args[6], args[7]>>
             IN  [process_set(quiet, session_id, rec)
                     EXCEPT !.path = SetPath(s, session_id)]
    ELSE IF args[1] = "alive" THEN
        [process_alive(quiet, AliveSet(args)) EXCEPT !.path = "alive"]
    ELSE IF args[1] = "fseq" THEN handle_fseq(s, quiet, now)
    ELSE quiet

(***************************************************************************)
(* Messages the dispatcher delivers.                                       *)
(***************************************************************************)
RECURSIVE SetToSeq(_)
SetToSeq(S) ==
    IF S = {} THEN <<>>
    ELSE LET m == CHOOSE x \in S : \A y \in S : x <= y
         IN  <<m>> \o SetToSeq(S \ {m})

SetMsg(i, r) == <<"set", i>> \o r

SetMsgs(ids, recs) == { SetMsg(i, r) : i \in ids, r \in recs }

\* set messages cut short: fewer than the 7 arguments the handler needs
ShortSetMsgs == { <<"set", 1>>, <<"set", 1, 1, 1, 0, 0>> }

AliveMsg(S) == <<"alive">> \o SetToSeq(S)

\* an alive message for each subset, ids ascending, and one repeating an id
AliveMsgs(ids) == { AliveMsg(S) : S \in SUBSET ids } \cup { <<"alive", 1, 1>> }

FseqMsg == <<"fseq", 0>>

OtherMsgs == { <<"source", 0>> }

(***************************************************************************)
(* Init: the state __init__ leaves (time origin at construction).          *)
(***************************************************************************)
Init ==
    /\ points = [i \in Slots |-> Sentinel]
    /\ id_to_point = EmptyDict
    /\ active_ids = {}
    /\ last_send_time = 0
    /\ pd_sent = <<>>
    /\ path = "init"
    /\ overflowed = FALSE
    /\ free_x_written = FALSE
    /\ fseq_log = <<>>

(***************************************************************************)
(* One action per kind of message: the dispatcher calls the handler and    *)
(* the handler's result becomes the state.                                 *)
(***************************************************************************)
Install(s) ==
    /\ points' = s.points
    /\ id_to_point' = s.id_to_point
    /\ active_ids' = s.active_ids
    /\ last_send_time' = s.last_send_time
    /\ pd_sent' = s.pd_sent
    /\ path' = s.path

RecvSet(ids, recs) ==
    \E m \in SetMsgs(ids, recs) :
        /\ Install(handle_tuio_message(Engine, m, 0))
        /\ overflowed' = (overflowed \/ SetPath(Engine, m[2]) = "overflow")
        /\ free_x_written' = (free_x_written \/ m[3] = -1)
        /\ UNCHANGED fseq_log

RecvShortSet ==
    \E m \in ShortSetMsgs :
        /\ Install(handle_tuio_message(Engine, m, 0))
        /\ UNCHANGED <<overflowed, free_x_written, fseq_log>>

RecvAlive(ids) ==
    \E m \in AliveMsgs(ids) :
        /\ Install(handle_tuio_message(Engine, m, 0))
        /\ UNCHANGED <<overflowed, free_x_written, fseq_log>>

\* fseq_log keeps the last `depth` calls
LogFseq(now, published, depth) ==
    LET l == Append(fseq_log, <<now, published>>) IN
    IF depth = 0 THEN <<>>
    ELSE IF Len(l) > depth THEN Tail(l) ELSE l

RecvFseq(times, depth) ==
    \E now \in times :
        /\ Install(handle_tuio_message(Engine, FseqMsg, now))
        /\ fseq_log' = LogFseq(now, GateOpen(now, last_send_time), depth)
        /\ UNCHANGED <<overflowed, free_x_written>>

RecvOther ==
    \E m \in OtherMsgs :
        /\ Install(handle_tuio_message(Engine, m, 0))
        /\ UNCHANGED <<overflowed, free_x_written, fseq_log>>

RecvEmpty ==
    /\ Install(handle_tuio_message(Engine, <<>>, 0))
    /\ UNCHANGED <<overflowed, free_x_written, fseq_log>>

\* Spec: every id and payload; the clock reads the construction time or one
\* interval later
CoarseTimes == {0, send_interval}

Next ==
    \/ RecvSet(Ids, Recs)
    \/ RecvShortSet
    \/ RecvAlive(Ids)
    \/ RecvFseq(CoarseTimes, 0)
    \/ RecvOther
    \/ RecvEmpty

Spec == Init /\ [][Next]_vars

\* SpecGate: the gate under every clock reading in 0..MaxTime (the wall clock
\* may step back between two fseq messages), with one id and one payload
Times == 0 .. MaxTime
\* the readings SpecGate draws: every 5 ms and 1 ms after
GateTimes == { t \in Times : t % 5 \in {0, 1} }
GateIds == {1}
GateRecs == { <<1, 1, 0, 0, 0>> }

NextGate ==
    \/ RecvSet(GateIds, GateRecs)
    \/ RecvFseq(GateTimes, 3)

SpecGate == Init /\ [][NextGate]_vars

(***************************************************************************)
(* Vocabulary of the properties.                                           *)
(***************************************************************************)
Bound == DOMAIN id_to_point

Occupied(pts) == { i \in Slots : pts[i][1] # -1 }

Targets(d) == { d[k] : k \in DOMAIN d }

Injective(d) == \A a, b \in DOMAIN d : a # b => d[a] # d[b]

MinOf(S) == CHOOSE x \in S : \A y \in S : x <= y

\* the handler's result in the current state
AfterSet(session_id, rec) == handle_tuio_message(Engine, SetMsg(session_id, rec), 0)

AfterAlive(S) == handle_tuio_message(Engine, AliveMsg(S), 0)

AfterFseq(now) == handle_tuio_message(Engine, FseqMsg, now)

\* table, bindings and active set of an engine state
Table(s) == <<s.points, s.id_to_point, s.active_ids>>

(***************************************************************************)
(* C1  Bijection invariant: as long as no set message has overflowed the   *)
(* table and no set message has carried x = -1, no two ids are bound to    *)
(* the same point and the points that are the target of a binding are      *)
(* exactly the occupied points (x # -1).                                   *)
(***************************************************************************)
C1_Bijection ==
    (~overflowed /\ ~free_x_written) =>
        /\ Injective(id_to_point)
        /\ Targets(id_to_point) = Occupied(points)

\* a point freed by an alive message below two points still bound
C1_Witness ==
    /\ ~overflowed /\ ~free_x_written
    /\ path = "alive"
    /\ Cardinality(Bound) = 2
    /\ Occupied(points) = {1, 2}

(***************************************************************************)
(* C2  First-free allocation order: a set message for an unbound id, with  *)
(* some point unoccupied, binds the id to the lowest unoccupied index and  *)
(* writes the record there, whatever the id's number; in particular, from  *)
(* an empty table three successive new ids get the points 0, 1, 2 in       *)
(* arrival order.                                                          *)
(***************************************************************************)
C2_LowestFree ==
    \A a \in Ids \ Bound : \A r \in Recs :
        Occupied(points) # Slots =>
            LET i == MinOf(Slots \ Occupied(points))
                t == AfterSet(a, r)
            IN  /\ a \in DOMAIN t.id_to_point
                /\ t.id_to_point[a] = i
                /\ t.points[i] = r

C2_ThreeInOrder ==
    Occupied(points) = {} =>
        \A a, b, c \in Ids \ Bound : \A ra, rb, rc \in Recs :
            (a # b /\ a # c /\ b # c) =>
                LET s1 == handle_tuio_message(Engine, SetMsg(a, ra), 0)
                    s2 == handle_tuio_message(s1, SetMsg(b, rb), 0)
                    s3 == handle_tuio_message(s2, SetMsg(c, rc), 0)
                IN  /\ s3.id_to_point[a] = 0
                    /\ s3.id_to_point[b] = 1
                    /\ s3.id_to_point[c] = 2

\* C2 in full: the lowest unoccupied index for every new id, and 0, 1, 2 for
\* three successive new ids on an empty table.  (C2_LowestFree holds;
\* C2_ThreeInOrder fails when the first record carries x = -1, which leaves
\* point 0 looking free.)
C2_FirstFree == C2_LowestFree /\ C2_ThreeInOrder

(***************************************************************************)
(* C3  Overflow policy: a set message for an unbound id while every point  *)
(* is occupied overwrites point 0 with the new record and binds the id to  *)
(* 0; every binding that existed stays as it was (the prior occupant of    *)
(* point 0 still points to 0) and the points 1..N-1 stay as they were.     *)
(***************************************************************************)
C3_Overflow ==
    \A a \in Ids \ Bound : \A r \in Recs :
        Occupied(points) = Slots =>
            LET t == AfterSet(a, r) IN
            /\ t.points[0] = r
            /\ DOMAIN t.id_to_point = Bound \cup {a}
            /\ t.id_to_point[a] = 0
            /\ \A k \in Bound : t.id_to_point[k] = id_to_point[k]
            /\ \A i \in Slots \ {0} : t.points[i] = points[i]

\* just after an overflow: the new id and the prior occupant both point to 0
C3_Witness ==
    /\ path = "overflow"
    /\ Cardinality({ k \in Bound : id_to_point[k] = 0 }) >= 2
    /\ Occupied(points) = Slots

(***************************************************************************)
(* C4  Liveness removal.  RemovedBy(S) are the bound ids of the old active *)
(* set that S omits.                                                       *)
(***************************************************************************)
RemovedBy(S) == { k \in Bound : k \in active_ids /\ k \notin S }

\* C4 as claimed: an alive message with the set S resets the point of every
\* removed id to the sentinel and deletes its binding, and leaves unchanged
\* the binding and the point record of every bound id that is in S.
C4_AsClaimed ==
    \A S \in SUBSET Ids :
        LET t == AfterAlive(S) IN
        /\ \A k \in RemovedBy(S) :
              /\ t.points[id_to_point[k]] = Sentinel
              /\ k \notin DOMAIN t.id_to_point
        /\ \A k \in Bound \cap S :
              /\ k \in DOMAIN t.id_to_point
              /\ t.id_to_point[k] = id_to_point[k]
              /\ t.points[id_to_point[k]] = points[id_to_point[k]]

\* C4 as amended: an alive message with the set S resets the point of every
\* removed id to the sentinel and deletes its binding, leaves every other
\* binding unchanged, and leaves every point unchanged that is not the
\* point of a removed id (a kept id that shares its point with a removed
\* id, as after an overflow, has its record reset with it).
C4_LivenessRemoval ==
    \A S \in SUBSET Ids :
        LET t == AfterAlive(S)
            freed == { id_to_point[k] : k \in RemovedBy(S) }
        IN  /\ DOMAIN t.id_to_point = Bound \ RemovedBy(S)
            /\ \A k \in Bound \ RemovedBy(S) : t.id_to_point[k] = id_to_point[k]
            /\ \A i \in Slots :
                  t.points[i] = IF i \in freed THEN Sentinel ELSE points[i]

\* after an overflow, an alive message has removed one of the two ids of
\* point 0: the id that stays bound has lost its record
C4_Witness ==
    /\ path = "alive"
    /\ overflowed
    /\ \E k \in Bound : id_to_point[k] = 0 /\ points[0] = Sentinel
    /\ Occupied(points) = Slots \ {0}

(***************************************************************************)
(* C5  Idempotent update: in every reachable state and for every id and    *)
(* record, handling the same set message twice in a row leaves the table,  *)
(* the bindings and the active set as handling it once does.               *)
(***************************************************************************)
C5_Idempotent ==
    \A a \in Ids : \A r \in Recs :
        LET once == AfterSet(a, r)
            twice == handle_tuio_message(once, SetMsg(a, r), 0)
        IN  Table(twice) = Table(once)

\* after an overflow, a set message has gone the update path for an id bound
\* to point 0 (as the second handling of the overflowing message does)
C5_Witness ==
    /\ path = "update"
    /\ overflowed
    /\ Cardinality({ k \in Bound : id_to_point[k] = 0 }) >= 2
    /\ Occupied(points) = Slots

(***************************************************************************)
(* C6  Publish throttling scenario on the last three fseq messages, at     *)
(* times t, t+5 and a third time, the first of which published.            *)
(***************************************************************************)
LogTime(i) == fseq_log[i][1]

LogPublished(i) == fseq_log[i][2]

\* C6 as claimed: the second, at t+5, does not publish and the third, at
\* t+6, does.
C6_AsClaimed ==
    (/\ Len(fseq_log) = 3
     /\ LogPublished(1)
     /\ LogTime(2) = LogTime(1) + 5
     /\ LogTime(3) = LogTime(1) + 6)
        => (~LogPublished(2) /\ LogPublished(3))

\* C6 as amended: the second, at t+5, does not publish; a third at t+6 does
\* not publish either, and a third at t+10 or later does.
C6_Throttle ==
    (/\ Len(fseq_log) = 3
     /\ LogPublished(1)
     /\ LogTime(2) = LogTime(1) + 5)
        => /\ ~LogPublished(2)
           /\ LogTime(3) = LogTime(1) + 6 => ~LogPublished(3)
           /\ LogTime(3) >= LogTime(1) + send_interval => LogPublished(3)

\* boundaries at 10, 15 and 16 ms: one publish; and at 10, 15, 20: two
C6_Witness ==
    /\ Len(fseq_log) = 3
    /\ LogPublished(1)
    /\ LogTime(2) = LogTime(1) + 5
    /\ LogTime(3) = LogTime(1) + 6
    /\ ~LogPublished(3)

(***************************************************************************)
(* C7  Publisher gate: an fseq message handled at the reading `now`        *)
(* publishes and sets last_send_time to now if and only if                 *)
(* now - last_send_time >= send_interval; otherwise it sends nothing and   *)
(* leaves last_send_time as it was.  So any two publishes are at least one *)
(* interval apart (however the clock moved in between), and a rejected     *)
(* boundary does not move last_send_time.                                  *)
(***************************************************************************)
C7_Gate ==
    /\ \A now \in Times :
          LET t == AfterFseq(now) IN
          IF now - last_send_time >= send_interval
          THEN t.pd_sent # <<>> /\ t.path = "publish" /\ t.last_send_time = now
          ELSE t.pd_sent = <<>> /\ t.path = "drop"
               /\ t.last_send_time = last_send_time
    /\ \A i, j \in DOMAIN fseq_log :
          (i < j /\ LogPublished(i) /\ LogPublished(j)) =>
              LogTime(j) - LogTime(i) >= send_interval
    /\ (fseq_log # <<>> /\ LogPublished(Len(fseq_log))) =>
          last_send_time = LogTime(Len(fseq_log))

\* two publishes exactly one interval apart, a rejected boundary in between
C7_Witness ==
    /\ Len(fseq_log) = 3
    /\ LogPublished(1) /\ ~LogPublished(2) /\ LogPublished(3)
    /\ LogTime(3) = LogTime(1) + send_interval
    /\ path = "publish"

(***************************************************************************)
(* C8  Full-state snapshot completeness: every publish sends exactly       *)
(* num_points messages, one per point index, in the order 0..num_points-1, *)
(* unoccupied points included with the sentinel values.                    *)
(***************************************************************************)
C8_Snapshot ==
    path = "publish" =>
        /\ Len(pd_sent) = num_points
        /\ \A i \in Slots :
              /\ Len(pd_sent[i + 1]) = 6
              /\ pd_sent[i + 1][1] = i
              /\ i \notin Occupied(points) => pd_sent[i + 1][2] = -1

\* a publish of a table with an unoccupied point between two occupied ones
C8_Witness ==
    /\ path = "publish"
    /\ points[1] = Sentinel
    /\ Occupied(points) = Slots \ {1}

(***************************************************************************)
(* C9  No backlog of skipped frames: a rejected fseq sends nothing, and a  *)
(* publish sends for each index exactly the record the table holds at that *)
(* moment (fseq_log and pd_sent are all the handler keeps: there is no     *)
(* queue of skipped frames).                                               *)
(***************************************************************************)
C9_NoBacklog ==
    /\ path = "drop" => pd_sent = <<>>
    /\ path = "publish" =>
          /\ DOMAIN pd_sent = 1 .. num_points
          /\ \A i \in Slots : pd_sent[i + 1] = <<i>> \o points[i]
    /\ \A now \in CoarseTimes :
          LET t == AfterFseq(now) IN
          IF t.path = "publish"
          THEN \A i \in Slots : t.pd_sent[i + 1] = <<i>> \o points[i]
          ELSE t.pd_sent = <<>>

\* a publish after the table changed: point 0 released, point 1 rewritten
C9_Witness ==
    /\ path = "publish"
    /\ points[0] = Sentinel
    /\ points[1] = <<2, 2, 1, 1, 1>>
    /\ Cardinality(Bound) = 1

(***************************************************************************)
(* C10  Active-id set.                                                     *)
(***************************************************************************)
\* C10 as claimed: an alive message replaces the stored set by its argument
\* and every set message (update, free-point and overflow path) and every
\* fseq message leaves the stored set unchanged, so that the stored set is
\* always the argument of the last alive message.
C10_AsClaimed ==
    /\ \A S \in SUBSET Ids : AfterAlive(S).active_ids = S
    /\ \A a \in Ids : \A r \in Recs : AfterSet(a, r).active_ids = active_ids
    /\ \A now \in CoarseTimes : AfterFseq(now).active_ids = active_ids

\* C10 as amended: an alive message replaces the stored set by its argument
\* (no merge); a set message for a bound id and an fseq message leave it
\* unchanged; a set message for an unbound id (free-point path or overflow
\* path) adds that id to it.
C10_ActiveSet ==
    /\ \A S \in SUBSET Ids : AfterAlive(S).active_ids = S
    /\ \A a \in Ids : \A r \in Recs :
          AfterSet(a, r).active_ids =
              IF a \in Bound THEN active_ids ELSE active_ids \cup {a}
    /\ \A now \in CoarseTimes : AfterFseq(now).active_ids = active_ids

\* every id bound and active, the last of them by overflow
C10_Witness ==
    /\ path = "overflow"
    /\ Cardinality(active_ids) = MaxId
    /\ Bound = active_ids

(***************************************************************************)
(* C11  Binding lifecycle and slot stability: whatever message is handled  *)
(* next (a set for this or another id, an overflow caused by another id,   *)
(* an fseq, an alive message, a malformed message), a bound id keeps its   *)
(* binding at the same index, unless the message is an alive message whose *)
(* set omits the id.                                                       *)
(***************************************************************************)
\* the messages of every kind, and the alive messages among them
AllMsgs ==
    SetMsgs(Ids, Recs) \cup ShortSetMsgs \cup AliveMsgs(Ids)
        \cup {FseqMsg} \cup OtherMsgs

IsAlive(m) == m[1] = "alive"

C11_StableBinding ==
    /\ \A m \in AllMsgs : \A now \in CoarseTimes :
          LET t == handle_tuio_message(Engine, m, now) IN
          \A k \in Bound :
              \/ k \in DOMAIN t.id_to_point /\ t.id_to_point[k] = id_to_point[k]
              \/ IsAlive(m) /\ k \notin AliveSet(m)
    /\ LET t == handle_tuio_message(Engine, <<>>, 0) IN
       t.id_to_point = id_to_point

\* an id displaced by an overflow and the id that displaced it, both still
\* bound to point 0 after an alive message that lists them
C11_Witness ==
    /\ path = "alive"
    /\ overflowed
    /\ Cardinality({ k \in Bound : id_to_point[k] = 0 }) >= 2
    /\ Cardinality(Bound) < MaxId

(***************************************************************************)
(* C12  Writers preserve the occupancy encoding: whatever the field values *)
(* of the set messages (x = -1 included), as long as no overflow has       *)
(* happened, the point of a bound id never counts as unoccupied, and the   *)
(* first-free allocation never gives a new id a point another id is bound  *)
(* to.                                                                     *)
(***************************************************************************)
C12_EncodingPreserved ==
    ~overflowed =>
        /\ \A k \in Bound : points[id_to_point[k]][1] # -1
        /\ Injective(id_to_point)
        /\ \A a \in Ids \ Bound : \A r \in Recs :
              AfterSet(a, r).id_to_point[a] \notin Targets(id_to_point)

(***************************************************************************)
(* C13  Non-monotonic clock: an fseq handled at a reading earlier than     *)
(* last_send_time (a negative interval) publishes.  On the log: an fseq    *)
(* that follows a publish (which set last_send_time to its reading) at a   *)
(* reading earlier than that publish is itself published.                  *)
(***************************************************************************)
C13_ClockBackPublishes ==
    \A i \in DOMAIN fseq_log :
        (i > 1 /\ LogPublished(i - 1) /\ LogTime(i) < LogTime(i - 1))
            => LogPublished(i)

(***************************************************************************)
(* C14  Malformed update is ignored: a set message with fewer than the     *)
(* seven arguments (command, id, x, y, vx, vy, accel), and a message with  *)
(* no arguments, leave the table, the bindings, the active set and         *)
(* last_send_time as they were and send nothing.                           *)
(***************************************************************************)
\* every proper prefix, from the command on, of a set message
CutSetMsgs ==
    { SubSeq(SetMsg(a, r), 1, n) : a \in Ids, r \in Recs, n \in 1 .. 6 }

C14_MalformedIgnored ==
    \A m \in CutSetMsgs \cup ShortSetMsgs \cup { <<>> } :
        LET t == handle_tuio_message(Engine, m, send_interval) IN
        /\ Table(t) = Table(Engine)
        /\ t.last_send_time = last_send_time
        /\ t.pd_sent = <<>>

\* a malformed message handled while ids are bound and a publish is due
C14_Witness ==
    /\ path = "ignored"
    /\ Cardinality(Bound) = 2
    /\ last_send_time = 0

(***************************************************************************)
(* C15  Liveness never creates bindings: an alive message adds no binding  *)
(* and occupies no point; an id it lists that has no binding stays unbound *)
(* (and the next set message for it goes through assign_new_id).           *)
(***************************************************************************)
C15_AliveBindsNothing ==
    \A S \in SUBSET Ids :
        LET t == AfterAlive(S) IN
        /\ DOMAIN t.id_to_point \subseteq Bound
        /\ Occupied(t.points) \subseteq Occupied(points)
        /\ \A k \in S \ Bound :
              /\ k \notin DOMAIN t.id_to_point
              /\ SetPath(t, k) # "update"

\* an alive message has announced ids that have no binding and no point
C15_Witness ==
    /\ path = "alive"
    /\ Cardinality(active_ids \ Bound) >= 2
    /\ Cardinality(Bound) = 1
    /\ Cardinality(Occupied(points)) = 1

(***************************************************************************)
(* C16  fseq is a pure trigger: whether it publishes or not, handling an   *)
(* fseq message leaves the table, the bindings and the active set as they  *)
(* were; of the program's state only last_send_time may change.            *)
(***************************************************************************)
C16_FseqPureTrigger ==
    \A now \in Times :
        LET t == AfterFseq(now) IN
        /\ Table(t) = Table(Engine)
        /\ t.path = "drop" => t.last_send_time = last_send_time

\* an fseq rejected by the gate over a full table
C16_Witness ==
    /\ path = "drop"
    /\ Cardinality(Bound) = num_points
    /\ Occupied(points) = Slots
    /\ last_send_time = send_interval

(***************************************************************************)
(* C18  No identifier leak: in every reachable state, overflow included,   *)
(* every bound id is in active_ids, so an alive message whose set omits a  *)
(* bound id unbinds it, whether or not it was ever announced.              *)
(***************************************************************************)
C18_NoIdLeak ==
    /\ Bound \subseteq active_ids
    /\ \A S \in SUBSET Ids : \A k \in Bound \ S :
          k \notin DOMAIN AfterAlive(S).id_to_point

\* after an overflow and a removal, a new id has just been bound to a point
\* that another id is still bound to
C18_Witness ==
    /\ path = "free"
    /\ overflowed
    /\ Cardinality({ k \in Bound : id_to_point[k] = 0 }) >= 2
    /\ active_ids = Bound

(***************************************************************************)
(* C19  No ghost points: in every reachable state, also after overflow and *)
(* after the removal of a displaced id, every occupied point (x # -1) is   *)
(* the target of at least one binding, and stays so across any alive       *)
(* message.                                                                *)
(***************************************************************************)
C19_NoGhostPoints ==
    /\ Occupied(points) \subseteq Targets(id_to_point)
    /\ \A S \in SUBSET Ids :
          LET t == AfterAlive(S) IN
          Occupied(t.points) \subseteq Targets(t.id_to_point)

\* after an overflow, removals have left one id, bound to the occupied point 0
C19_Witness ==
    /\ path = "alive"
    /\ overflowed
    /\ Occupied(points) = {0}
    /\ Cardinality(Bound) = 1

(***************************************************************************)
(* C20  An empty alive message resets the converter: from every reachable  *)
(* state it leaves every point equal to (-1,-1,0,0,0), no binding and an   *)
(* empty active set, as __init__ does.                                     *)
(***************************************************************************)
C20_EmptyAliveResets ==
    /\ LET t == AfterAlive({}) IN
       /\ t.points = [i \in Slots |-> Sentinel]
       /\ t.id_to_point = EmptyDict
       /\ t.active_ids = {}
    /\ (path = "alive" /\ active_ids = {}) =>
          /\ points = [i \in Slots |-> Sentinel]
          /\ id_to_point = EmptyDict

\* an empty alive message has been handled after an overflow and after a
\* record with x = -1 had been written
C20_Witness ==
    /\ path = "alive"
    /\ overflowed /\ free_x_written
    /\ active_ids = {}
    /\ Bound = {}

====
